---- MODULE Spec2Model ----
(***************************************************************************)
(* Request tracking system (Django + Django REST framework).               *)
(*                                                                         *)
(* State: the two tables of service_requests/models.py (ServiceRequest,    *)
(* Department) and the response of the last HTTP exchange.  One action per *)
(* view of service_requests/views.py, service_requests/api_views.py and    *)
(* service_requests/admin.py.  A view runs to completion in one step.      *)
(*                                                                         *)
(* Text values (department names, codes, managers) are sequences of        *)
(* one-character strings so that strip(), upper() and f-string formatting  *)
(* are computed, not assumed.                                              *)
(***************************************************************************)
EXTENDS Integers, Sequences, FiniteSets, TLC

----------------------------------------------------------------------------
(* Bounds of the model *)

\* Number of ServiceRequest rows ever inserted (ids 1..MaxRequests).
MaxRequests == 2
\* Number of Department rows that may exist at the same time.
MaxDepartments == 2

----------------------------------------------------------------------------
(* Text *)

LowerLetters == <<"a","b","c","d","e","f","g","h","i","j","k","l","m",
                  "n","o","p","q","r","s","t","u","v","w","x","y","z">>
UpperLetters == <<"A","B","C","D","E","F","G","H","I","J","K","L","M",
                  "N","O","P","Q","R","S","T","U","V","W","X","Y","Z">>
Whitespace == {" "}

\* str.upper() on one character
UpperChar(c) ==
    IF \E i \in 1..Len(LowerLetters) : LowerLetters[i] = c
    THEN UpperLetters[CHOOSE i \in 1..Len(LowerLetters) : LowerLetters[i] = c]
    ELSE c

\* str.upper()
Upper(s) == [i \in 1..Len(s) |-> UpperChar(s[i])]

RECURSIVE LStrip(_)
LStrip(s) == IF s # <<>> /\ Head(s) \in Whitespace THEN LStrip(Tail(s)) ELSE s

RECURSIVE RStrip(_)
RStrip(s) ==
    IF s # <<>> /\ s[Len(s)] \in Whitespace
    THEN RStrip(SubSeq(s, 1, Len(s) - 1))
    ELSE s

\* str.strip()
Strip(s) == RStrip(LStrip(s))

DigitChars == <<"0","1","2","3","4","5","6","7","8","9">>

\* str(n) for n >= 0
RECURSIVE IntToStr(_)
IntToStr(n) ==
    IF n < 10 THEN <<DigitChars[n + 1]>>
    ELSE IntToStr(n \div 10) \o <<DigitChars[(n % 10) + 1]>>

\* format(n, "02d") for n >= 0
Format02d(n) == IF n < 10 THEN <<"0">> \o IntToStr(n) ELSE IntToStr(n)

\* The text values that occur in the model
str_empty == <<>>
str_IT == <<"I","T">>
str_it == <<"i","t">>
str_sp_IT == <<" ","I","T">>
str_hr == <<"h","r">>
str_Ann == <<"A","n","n">>
str_Unknown == <<"U","n","k","n","o","w","n">>
str_Department_ == <<"D","e","p","a","r","t","m","e","n","t"," ">>
str_DEPT == <<"D","E","P","T">>

----------------------------------------------------------------------------
(* models.py *)

STATUS_CHOICES == << <<"pending", "Pending">>,
                     <<"in_progress", "In Progress">>,
                     <<"resolved", "Resolved">>,
                     <<"closed", "Closed">> >>

CATEGORY_CHOICES == << <<"password_reset", "Password Reset">>,
                       <<"software_installation", "Software Installation">>,
                       <<"hardware_issue", "Hardware Issue">>,
                       <<"printer_issue", "Printer Issue">>,
                       <<"network_issue", "Network Issue">>,
                       <<"account_access", "Account Access">>,
                       <<"other", "Other">> >>

\* [choice[0] for choice in CHOICES], dict(CHOICES).keys()
ChoiceCodes(choices) == {choices[i][1] : i \in 1..Len(choices)}

\* The columns of ServiceRequest (id is the primary key)
ServiceRequestFields == {"id", "requester_name", "department", "category",
                         "description", "status", "created_at", "updated_at",
                         "assigned_to"}

\* NULL / a value that was not supplied
None == "None"

\* auth.User rows and the request.user of a visitor who is not logged in
Users == {"alice", "bob"}
StaffUsers == {"bob"}
Superusers == {"bob"}
AnonymousUser == "anonymous"
Callers == Users \cup {AnonymousUser}

is_authenticated(user) == user \in Users
is_staff(user) == user \in StaffUsers
is_superuser(user) == user \in Superusers

----------------------------------------------------------------------------
(* State *)

VARIABLES
    requests,       \* ServiceRequest table: id -> row
    next_id,        \* next primary key of the ServiceRequest table
    departments,    \* Department table: set of rows (name, code, manager)
    resp,           \* the response of the last HTTP exchange
    inflight        \* per worker: the status update it is in the middle of

vars == <<requests, next_id, departments, resp, inflight>>

NoResponse == [op |-> "none", code |-> 0, success |-> FALSE, id |-> 0,
               old_status |-> None, new_status |-> None, data |-> <<>>]

\* A response that carries nothing but its HTTP status
Plain(op, code, success) ==
    [NoResponse EXCEPT !.op = op, !.code = code, !.success = success]

\* The workers that serve requests at the same time
Workers == {"worker_1", "worker_2"}

\* A worker that is in no status update
Idle == [pc |-> "idle", view |-> None, user |-> None, id |-> 0,
         new_status |-> None, service_request |-> None]

Init ==
    /\ requests = [i \in {} |-> None]
    /\ next_id = 1
    /\ departments = {}
    /\ resp = NoResponse
    /\ inflight = [w \in Workers |-> Idle]

\* ServiceRequest.save(): status falls back to 'pending' when it is empty
ServiceRequest_save(row) ==
    IF row.status = "" \/ row.status = None
    THEN [row EXCEPT !.status = "pending"]
    ELSE row

\* INSERT of a new row under the next primary key
InsertRequest(row) ==
    /\ next_id <= MaxRequests
    /\ requests' = [i \in (DOMAIN requests) \cup {next_id} |->
                        IF i = next_id THEN ServiceRequest_save(row) ELSE requests[i]]
    /\ next_id' = next_id + 1

\* UPDATE of the row with primary key id (the whole row is written)
UpdateRequest(id, row) ==
    /\ requests' = [requests EXCEPT ![id] = ServiceRequest_save(row)]
    /\ UNCHANGED next_id

----------------------------------------------------------------------------
(* permissions.py and django.contrib.auth.decorators *)

SAFE_METHODS == {"GET", "HEAD", "OPTIONS"}

\* Faulty variant of IsStaffOrReadOnly: every authenticated caller may write
IsStaffOrReadOnly_authenticated(method, user) == is_authenticated(user)

\* IsStaffOrReadOnly.has_permission
IsStaffOrReadOnly(method, user) ==
    IF method \in SAFE_METHODS
    THEN is_authenticated(user)
    ELSE is_authenticated(user) /\ is_staff(user)

IsStaffOnly(user) == is_authenticated(user) /\ is_staff(user)

login_required(user) == is_authenticated(user)

----------------------------------------------------------------------------
(* serializers.py *)

\* Meta.fields of the two ModelSerializers of ServiceRequest
ServiceRequestSerializer_fields ==
    {"id", "requester_name", "requester_email", "department", "category",
     "category_display", "description", "status", "status_display",
     "assigned_to", "assigned_to_details", "created_at", "updated_at"}
ServiceRequestSerializer_declared ==
    {"assigned_to_details", "status_display", "category_display"}
ServiceRequestCreateSerializer_fields ==
    {"requester_name", "requester_email", "department", "category", "description"}

\* rest_framework ModelSerializer.get_fields(): a name of Meta.fields that is
\* neither declared on the serializer nor a field of the model raises
\* ImproperlyConfigured the first time the serializer's fields are built
\* (is_valid() and .data both build them); the view then answers 500.
ImproperlyConfigured(meta_fields, declared) ==
    \E f \in meta_fields : f \notin declared /\ f \notin ServiceRequestFields

validate_category(value) == value \in ChoiceCodes(CATEGORY_CHOICES)
validate_status(value) == value \in ChoiceCodes(STATUS_CHOICES)

\* Faulty variant of ServiceRequestStatusUpdateSerializer_is_valid: only the
\* presence of 'status' is checked
ServiceRequestStatusUpdateSerializer_is_valid_lax(status) == status # None

\* ServiceRequestStatusUpdateSerializer(data).is_valid(): 'status' is a
\* required ChoiceField over STATUS_CHOICES, then validate_status
ServiceRequestStatusUpdateSerializer_is_valid(status) ==
    /\ status # None
    /\ status \in ChoiceCodes(STATUS_CHOICES)
    /\ validate_status(status)

----------------------------------------------------------------------------
(* Inputs *)

StatusInputs == ChoiceCodes(STATUS_CHOICES) \cup {"bogus", None}
CategoryInputs == {"password_reset", "other", "bogus"}
DepartmentInputs == {str_empty, str_IT, str_it, str_sp_IT}
Methods == {"GET", "POST"}
RequestIds == 1..(MaxRequests + 1)

\* Faulty variant of ServiceRequest_new: another default status
ServiceRequest_new_in_progress(department, category) ==
    [department |-> department, category |-> category,
     status |-> "in_progress", assigned_to |-> None]

\* ServiceRequest(**fields): the model's field defaults
ServiceRequest_new(department, category) ==
    [department |-> department, category |-> category,
     status |-> "pending", assigned_to |-> None]

----------------------------------------------------------------------------
(* forms.py *)

\* One user of the external feed
\* (has_id, id, has_name, name, has_company_name, company_name)
FeedUser(has_id, id, has_name, name, has_company_name, company_name) ==
    [has_id |-> has_id, id |-> id, has_name |-> has_name, name |-> name,
     has_company_name |-> has_company_name, company_name |-> company_name]

user_1 == FeedUser(TRUE, 1, TRUE, str_Ann, TRUE, str_IT)
user_2 == FeedUser(TRUE, 2, FALSE, str_empty, FALSE, str_empty)
user_1b == FeedUser(TRUE, 1, TRUE, str_Ann, TRUE, str_it)
user_noid == FeedUser(FALSE, 0, TRUE, str_Ann, TRUE, str_it)

\* What requests.get(...) can give: an exception (connection error, timeout),
\* a status code, and for 200 the decoded JSON list
FeedResponses ==
    { [raised |-> TRUE, status_code |-> 0, users |-> <<>>],
      [raised |-> FALSE, status_code |-> 500, users |-> <<>>],
      [raised |-> FALSE, status_code |-> 200, users |-> <<>>],
      [raised |-> FALSE, status_code |-> 200, users |-> <<user_1>>],
      [raised |-> FALSE, status_code |-> 200, users |-> <<user_1, user_2>>],
      [raised |-> FALSE, status_code |-> 200, users |-> <<user_1, user_1b>>],
      [raised |-> FALSE, status_code |-> 200, users |-> <<user_noid>>] }

FetchLimit == 10

Department_row(name, code, manager) ==
    [name |-> name, code |-> code, manager |-> manager]

\* Department.objects.get_or_create(name=..., defaults={code, manager}):
\* the row of that name if there is one; else an INSERT, which the unique
\* constraints on name and code can refuse (IntegrityError)
get_or_create(depts, name, code, manager) ==
    IF \E d \in depts : d.name = name
    THEN [departments |-> depts, created |-> FALSE, raised |-> FALSE,
          department |-> CHOOSE d \in depts : d.name = name]
    ELSE IF \E d \in depts : d.code = code
    THEN [departments |-> depts, created |-> FALSE, raised |-> TRUE,
          department |-> Department_row(name, code, manager)]
    ELSE [departments |-> depts \cup {Department_row(name, code, manager)},
          created |-> TRUE, raised |-> FALSE,
          department |-> Department_row(name, code, manager)]

\* The for loop of fetch_departments_from_api; an exception leaves the loop
\* with the rows created so far
RECURSIVE fetch_loop(_, _, _)
fetch_loop(users, depts, choices) ==
    IF users = <<>>
    THEN [departments |-> depts, choices |-> choices, raised |-> FALSE]
    ELSE LET user == Head(users) IN
         IF ~user.has_id
         THEN [departments |-> depts, choices |-> choices, raised |-> TRUE]
         ELSE LET dept_name == IF user.has_company_name
                               THEN user.company_name
                               ELSE str_Department_ \o IntToStr(user.id)
                  code == str_DEPT \o Format02d(user.id)
                  manager == IF user.has_name THEN user.name ELSE str_Unknown
                  got == get_or_create(depts, dept_name, code, manager)
              IN IF got.raised
                 THEN [departments |-> depts, choices |-> choices, raised |-> TRUE]
                 ELSE fetch_loop(Tail(users), got.departments,
                                 choices \cup {dept_name})

\* ServiceRequestForm.fetch_departments_from_api: every exception is
\* swallowed and [] is returned
fetch_departments_from_api(depts, feed) ==
    IF feed.raised \/ feed.status_code # 200
    THEN [departments |-> depts, choices |-> {}]
    ELSE LET first == SubSeq(feed.users, 1,
                             IF Len(feed.users) < FetchLimit
                             THEN Len(feed.users) ELSE FetchLimit)
             out == fetch_loop(first, depts, {})
         IN IF out.raised
            THEN [departments |-> out.departments, choices |-> {}]
            ELSE [departments |-> out.departments, choices |-> out.choices]

StaticChoices == {str_empty, str_IT, <<"H","R">>, <<"F","i","n","a","n","c","e">>,
                  <<"M","a","r","k","e","t","i","n","g">>,
                  <<"O","p","e","r","a","t","i","o","n","s">>,
                  <<"S","a","l","e","s">>}

\* ServiceRequestForm.load_departments: the values of the department select.
\* The except branch needs load_departments itself to raise (the database
\* failing); fetch_departments_from_api never raises.
load_departments(depts, feed) ==
    LET db_choices == {d.name : d \in depts}
        fetched == IF db_choices = {}
                   THEN fetch_departments_from_api(depts, feed)
                   ELSE [departments |-> depts, choices |-> db_choices]
    IN [departments |-> fetched.departments,
        choices |-> {str_empty} \cup fetched.choices]

\* ServiceRequestForm(data).is_valid(): Meta.fields are requester_name,
\* department, category, description, all required; a CharField strips its
\* value; category is a choice field
ServiceRequestForm_is_valid(has_text, department, category) ==
    /\ has_text
    /\ Strip(department) # str_empty
    /\ category \in ChoiceCodes(CATEGORY_CHOICES)

----------------------------------------------------------------------------
(* views.py: submission *)

\* home: the public page with the submission form.  Building the form loads
\* the department choices (and may store departments fetched from the feed).
home(user, method, feed, has_text, department, category) ==
    LET loaded == load_departments(departments, feed) IN
    /\ UNCHANGED inflight
    /\ Cardinality(loaded.departments) <= MaxDepartments
    /\ departments' = loaded.departments
    /\ IF method = "POST" /\ ServiceRequestForm_is_valid(has_text, department, category)
       THEN /\ InsertRequest(ServiceRequest_new(Strip(department), category))
            /\ resp' = [Plain("home", 302, TRUE) EXCEPT !.id = next_id]
       ELSE /\ UNCHANGED <<requests, next_id>>
            /\ resp' = [Plain("home", 200, FALSE) EXCEPT !.data = loaded.choices]

----------------------------------------------------------------------------
(* api_views.py: requests *)

\* submit_request: public; ServiceRequestCreateSerializer validates and saves,
\* ServiceRequestSerializer renders the answer
submit_request(user, has_text, department, category) ==
    /\ UNCHANGED inflight
    /\ UNCHANGED departments
    /\ IF ImproperlyConfigured(ServiceRequestCreateSerializer_fields, {})
       THEN /\ UNCHANGED <<requests, next_id>>
            /\ resp' = Plain("submit_request", 500, FALSE)
       ELSE IF ~(has_text /\ Strip(department) # str_empty /\ validate_category(category))
       THEN /\ UNCHANGED <<requests, next_id>>
            /\ resp' = Plain("submit_request", 400, FALSE)
       ELSE /\ InsertRequest(ServiceRequest_new(Strip(department), category))
            /\ resp' = IF ImproperlyConfigured(ServiceRequestSerializer_fields,
                                               ServiceRequestSerializer_declared)
                       THEN Plain("submit_request", 500, FALSE)
                       ELSE [Plain("submit_request", 201, TRUE) EXCEPT !.id = next_id]

\* ServiceRequestViewSet.create (POST /api/requests/)
ServiceRequestViewSet_create(user, department, category, status, assigned_to) ==
    /\ UNCHANGED inflight
    /\ UNCHANGED departments
    /\ IF ~IsStaffOrReadOnly("POST", user)
       THEN /\ UNCHANGED <<requests, next_id>>
            /\ resp' = Plain("ServiceRequestViewSet_create", 403, FALSE)
       ELSE IF ImproperlyConfigured(ServiceRequestSerializer_fields,
                                    ServiceRequestSerializer_declared)
       THEN /\ UNCHANGED <<requests, next_id>>
            /\ resp' = Plain("ServiceRequestViewSet_create", 500, FALSE)
       ELSE IF ~(/\ Strip(department) # str_empty
                 /\ validate_category(category)
                 /\ (status = None \/ validate_status(status)))
       THEN /\ UNCHANGED <<requests, next_id>>
            /\ resp' = Plain("ServiceRequestViewSet_create", 400, FALSE)
       ELSE /\ InsertRequest(
                  [ServiceRequest_new(Strip(department), category) EXCEPT
                      !.status = IF status = None THEN @ ELSE status,
                      !.assigned_to = assigned_to])
            /\ resp' = [Plain("ServiceRequestViewSet_create", 201, TRUE)
                            EXCEPT !.id = next_id]

\* ServiceRequestViewSet.update / partial_update (PUT, PATCH /api/requests/<id>/)
ServiceRequestViewSet_update(user, id, status, assigned_to) ==
    /\ UNCHANGED inflight
    /\ UNCHANGED <<departments, next_id>>
    /\ IF ~IsStaffOrReadOnly("PUT", user)
       THEN /\ UNCHANGED requests
            /\ resp' = Plain("ServiceRequestViewSet_update", 403, FALSE)
       ELSE IF id \notin DOMAIN requests
       THEN /\ UNCHANGED requests
            /\ resp' = Plain("ServiceRequestViewSet_update", 404, FALSE)
       ELSE IF ImproperlyConfigured(ServiceRequestSerializer_fields,
                                    ServiceRequestSerializer_declared)
       THEN /\ UNCHANGED requests
            /\ resp' = Plain("ServiceRequestViewSet_update", 500, FALSE)
       ELSE IF ~validate_status(status)
       THEN /\ UNCHANGED requests
            /\ resp' = Plain("ServiceRequestViewSet_update", 400, FALSE)
       ELSE /\ requests' = [requests EXCEPT ![id] = ServiceRequest_save(
                               [@ EXCEPT !.status = status,
                                         !.assigned_to = assigned_to])]
            /\ resp' = [Plain("ServiceRequestViewSet_update", 200, TRUE)
                            EXCEPT !.id = id]

\* ServiceRequestViewSet.destroy (DELETE /api/requests/<id>/)
ServiceRequestViewSet_destroy(user, id) ==
    /\ UNCHANGED inflight
    /\ UNCHANGED <<departments, next_id>>
    /\ IF ~IsStaffOrReadOnly("DELETE", user)
       THEN /\ UNCHANGED requests
            /\ resp' = Plain("ServiceRequestViewSet_destroy", 403, FALSE)
       ELSE IF id \notin DOMAIN requests
       THEN /\ UNCHANGED requests
            /\ resp' = Plain("ServiceRequestViewSet_destroy", 404, FALSE)
       ELSE /\ requests' = [i \in (DOMAIN requests) \ {id} |-> requests[i]]
            /\ resp' = [Plain("ServiceRequestViewSet_destroy", 204, TRUE)
                            EXCEPT !.id = id]

\* ServiceRequestViewSet.list (GET /api/requests/): every row goes through
\* ServiceRequestSerializer
ServiceRequestViewSet_list(user) ==
    /\ UNCHANGED inflight
    /\ UNCHANGED <<requests, next_id, departments>>
    /\ IF ~IsStaffOrReadOnly("GET", user)
       THEN resp' = Plain("ServiceRequestViewSet_list", 403, FALSE)
       ELSE IF /\ DOMAIN requests # {}
               /\ ImproperlyConfigured(ServiceRequestSerializer_fields,
                                       ServiceRequestSerializer_declared)
       THEN resp' = Plain("ServiceRequestViewSet_list", 500, FALSE)
       ELSE resp' = [Plain("ServiceRequestViewSet_list", 200, TRUE) EXCEPT
                       !.data = DOMAIN requests]

----------------------------------------------------------------------------
(* Status updates *)

\* Faulty variant of update_status_assigned_to: the assignee is overwritten
update_status_assigned_to_overwrite(service_request, new_status, user) ==
    IF new_status = "in_progress" THEN user ELSE service_request.assigned_to

\* update_status: "Auto-assign to current user when status changes to
\* in_progress"; the value of service_request.assigned_to that is saved
update_status_assigned_to(service_request, new_status, user) ==
    IF new_status = "in_progress" /\ service_request.assigned_to = None
    THEN user
    ELSE service_request.assigned_to

\* ServiceRequestViewSet.update_status (POST /api/requests/<id>/update-status/)
update_status(user, id, status) ==
    /\ UNCHANGED inflight
    /\ UNCHANGED <<departments, next_id>>
    /\ IF ~IsStaffOnly(user)
       THEN /\ UNCHANGED requests
            /\ resp' = Plain("update_status", 403, FALSE)
       ELSE IF id \notin DOMAIN requests
       THEN /\ UNCHANGED requests
            /\ resp' = Plain("update_status", 404, FALSE)
       ELSE IF ~ServiceRequestStatusUpdateSerializer_is_valid(status)
       THEN /\ UNCHANGED requests
            /\ resp' = Plain("update_status", 400, FALSE)
       ELSE LET service_request == requests[id]
                new_status == status
                old_status == service_request.status
                assigned == update_status_assigned_to(service_request, new_status, user)
            IN /\ requests' = [requests EXCEPT ![id] = ServiceRequest_save(
                                  [service_request EXCEPT
                                      !.status = new_status,
                                      !.assigned_to = assigned])]
               \* the answer embeds ServiceRequestSerializer(service_request).data
               /\ resp' = IF ImproperlyConfigured(ServiceRequestSerializer_fields,
                                                  ServiceRequestSerializer_declared)
                          THEN [Plain("update_status", 500, FALSE) EXCEPT !.id = id]
                          ELSE [Plain("update_status", 200, TRUE) EXCEPT
                                   !.id = id,
                                   !.old_status = old_status,
                                   !.new_status = new_status]

\* Faulty variant of update_request_status_is_valid: any supplied value passes
update_request_status_is_valid_lax(new_status) == new_status # None

\* update_request_status: new_status in dict(ServiceRequest.STATUS_CHOICES);
\* a body without 'status' gives None
update_request_status_is_valid(new_status) ==
    new_status \in ChoiceCodes(STATUS_CHOICES)

\* Faulty variant of update_request_status_old_status: read after the new
\* status is set
update_request_status_old_status_late(service_request, new_status) == new_status

\* update_request_status: old_status is read before the new status is set
update_request_status_old_status(service_request, new_status) ==
    service_request.status

\* Faulty variant of update_request_status_assigned_to: assigns on every status
update_request_status_assigned_to_any(service_request, new_status, user) ==
    IF service_request.assigned_to = None THEN user ELSE service_request.assigned_to

\* update_request_status: the value of service_request.assigned_to that is saved
update_request_status_assigned_to(service_request, new_status, user) ==
    IF new_status = "in_progress" /\ service_request.assigned_to = None
    THEN user
    ELSE service_request.assigned_to

\* update_request_status (POST /requests/<id>/update-status/, JSON body)
update_request_status(user, method, id, status) ==
    /\ UNCHANGED inflight
    /\ UNCHANGED <<departments, next_id>>
    /\ IF ~login_required(user)
       THEN /\ UNCHANGED requests
            /\ resp' = Plain("update_request_status", 302, FALSE)
       ELSE IF method = "POST" /\ id \notin DOMAIN requests
       THEN /\ UNCHANGED requests
            /\ resp' = Plain("update_request_status", 404, FALSE)
       ELSE IF method = "POST" /\ update_request_status_is_valid(status)
       THEN LET service_request == requests[id]
                new_status == status
                old_status == update_request_status_old_status(service_request, new_status)
                assigned == update_request_status_assigned_to(service_request,
                                                              new_status, user)
            IN /\ requests' = [requests EXCEPT ![id] = ServiceRequest_save(
                                  [service_request EXCEPT
                                      !.status = new_status,
                                      !.assigned_to = assigned])]
               /\ resp' = [Plain("update_request_status", 200, TRUE) EXCEPT
                              !.id = id,
                              !.old_status = old_status,
                              !.new_status = new_status]
       ELSE /\ UNCHANGED requests
            /\ resp' = Plain("update_request_status", 200, FALSE)

----------------------------------------------------------------------------
(* Status updates served by several workers at the same time.  A view runs   *)
(* in autocommit, without a transaction and without select_for_update: the   *)
(* SELECT of get_object and the UPDATE of save() are two steps, and the      *)
(* steps of other workers may fall between them.  Each worker serves one     *)
(* status update.                                                            *)

\* save() of the instance a worker holds: UPDATE of every column of the row
\* with that primary key (INSERT when no row has it)
SaveInstance(id, row) ==
    /\ requests' = [i \in (DOMAIN requests) \cup {id} |->
                        IF i = id THEN ServiceRequest_save(row) ELSE requests[i]]
    /\ UNCHANGED next_id

\* update_status up to service_request = self.get_object(): the gate, then
\* the read of the row into the instance the worker holds
update_status_get_object(w, user, id, status) ==
    /\ inflight[w].pc = "idle"
    /\ UNCHANGED <<requests, next_id, departments>>
    /\ IF ~IsStaffOnly(user)
       THEN /\ UNCHANGED inflight
            /\ resp' = Plain("update_status", 403, FALSE)
       ELSE IF id \notin DOMAIN requests
       THEN /\ UNCHANGED inflight
            /\ resp' = Plain("update_status", 404, FALSE)
       ELSE /\ inflight' = [inflight EXCEPT ![w] =
                               [pc |-> "read", view |-> "update_status",
                                user |-> user, id |-> id, new_status |-> status,
                                service_request |-> requests[id]]]
            /\ UNCHANGED resp

\* update_status from serializer.is_valid() on: the instance is changed and
\* saved, the answer is rendered
update_status_save(w) ==
    /\ inflight[w].pc = "read"
    /\ inflight[w].view = "update_status"
    /\ UNCHANGED departments
    /\ LET service_request == inflight[w].service_request
           new_status == inflight[w].new_status
           id == inflight[w].id
       IN IF ~ServiceRequestStatusUpdateSerializer_is_valid(new_status)
          THEN /\ UNCHANGED <<requests, next_id>>
               /\ inflight' = [inflight EXCEPT ![w] = Idle]
               /\ resp' = Plain("update_status", 400, FALSE)
          ELSE /\ SaveInstance(id,
                    [service_request EXCEPT
                        !.status = new_status,
                        !.assigned_to = update_status_assigned_to(
                                            service_request, new_status,
                                            inflight[w].user)])
               /\ inflight' = [inflight EXCEPT ![w].pc = "done"]
               /\ resp' = IF ImproperlyConfigured(ServiceRequestSerializer_fields,
                                                  ServiceRequestSerializer_declared)
                          THEN [Plain("update_status", 500, FALSE) EXCEPT !.id = id]
                          ELSE [Plain("update_status", 200, TRUE) EXCEPT
                                   !.id = id,
                                   !.old_status = service_request.status,
                                   !.new_status = new_status]

\* update_request_status (POST) up to get_object_or_404
update_request_status_get_object_or_404(w, user, id, status) ==
    /\ inflight[w].pc = "idle"
    /\ UNCHANGED <<requests, next_id, departments>>
    /\ IF ~login_required(user)
       THEN /\ UNCHANGED inflight
            /\ resp' = Plain("update_request_status", 302, FALSE)
       ELSE IF id \notin DOMAIN requests
       THEN /\ UNCHANGED inflight
            /\ resp' = Plain("update_request_status", 404, FALSE)
       ELSE /\ inflight' = [inflight EXCEPT ![w] =
                               [pc |-> "read", view |-> "update_request_status",
                                user |-> user, id |-> id, new_status |-> status,
                                service_request |-> requests[id]]]
            /\ UNCHANGED resp

\* update_request_status from the test of new_status on
update_request_status_save(w) ==
    /\ inflight[w].pc = "read"
    /\ inflight[w].view = "update_request_status"
    /\ UNCHANGED departments
    /\ LET service_request == inflight[w].service_request
           new_status == inflight[w].new_status
           id == inflight[w].id
       IN IF ~update_request_status_is_valid(new_status)
          THEN /\ UNCHANGED <<requests, next_id>>
               /\ inflight' = [inflight EXCEPT ![w] = Idle]
               /\ resp' = Plain("update_request_status", 200, FALSE)
          ELSE /\ SaveInstance(id,
                    [service_request EXCEPT
                        !.status = new_status,
                        !.assigned_to = update_request_status_assigned_to(
                                            service_request, new_status,
                                            inflight[w].user)])
               /\ inflight' = [inflight EXCEPT ![w].pc = "done"]
               /\ resp' = [Plain("update_request_status", 200, TRUE) EXCEPT
                              !.id = id,
                              !.old_status = update_request_status_old_status(
                                                 service_request, new_status),
                              !.new_status = new_status]

----------------------------------------------------------------------------
(* admin.py *)

\* The admin site lets in active staff users; adding and changing a
\* ServiceRequest needs the model permissions, which a superuser has
admin_has_permission(user) == is_staff(user) /\ is_superuser(user)

\* ServiceRequestAdmin add / change view: the ModelForm over every editable
\* field, then save_model
ServiceRequestAdmin_save_model(user, change, id, department, category, status, assigned_to) ==
    /\ UNCHANGED inflight
    /\ UNCHANGED departments
    /\ IF ~admin_has_permission(user)
       THEN /\ UNCHANGED <<requests, next_id>>
            /\ resp' = Plain("ServiceRequestAdmin_save_model", 302, FALSE)
       ELSE IF change /\ id \notin DOMAIN requests
       THEN /\ UNCHANGED <<requests, next_id>>
            /\ resp' = Plain("ServiceRequestAdmin_save_model", 404, FALSE)
       ELSE IF ~(/\ Strip(department) # str_empty
                 /\ category \in ChoiceCodes(CATEGORY_CHOICES)
                 /\ status \in ChoiceCodes(STATUS_CHOICES))
       THEN /\ UNCHANGED <<requests, next_id>>
            /\ resp' = Plain("ServiceRequestAdmin_save_model", 200, FALSE)
       ELSE LET obj == [department |-> Strip(department), category |-> category,
                        status |-> status, assigned_to |-> assigned_to]
            IN /\ IF change
                  THEN UpdateRequest(id, obj)
                  ELSE InsertRequest(obj)
               /\ resp' = [Plain("ServiceRequestAdmin_save_model", 302, TRUE)
                              EXCEPT !.id = IF change THEN id ELSE next_id]

\* ServiceRequestAdmin delete view (the admin site's delete of one object)
ServiceRequestAdmin_delete_model(user, id) ==
    /\ UNCHANGED inflight
    /\ UNCHANGED <<departments, next_id>>
    /\ IF ~admin_has_permission(user)
       THEN /\ UNCHANGED requests
            /\ resp' = Plain("ServiceRequestAdmin_delete_model", 302, FALSE)
       ELSE IF id \notin DOMAIN requests
       THEN /\ UNCHANGED requests
            /\ resp' = Plain("ServiceRequestAdmin_delete_model", 404, FALSE)
       ELSE /\ requests' = [i \in (DOMAIN requests) \ {id} |-> requests[i]]
            /\ resp' = [Plain("ServiceRequestAdmin_delete_model", 302, TRUE)
                            EXCEPT !.id = id]

----------------------------------------------------------------------------
(* Statistics *)

\* Faulty variant of count_status: exclude() in place of filter()
count_status_exclude(s) ==
    Cardinality({i \in DOMAIN requests : requests[i].status # s})

\* ServiceRequest.objects.filter(status=s).count()
count_status(s) == Cardinality({i \in DOMAIN requests : requests[i].status = s})

\* ServiceRequest.objects.filter(category=c).count()
count_category(c) == Cardinality({i \in DOMAIN requests : requests[i].category = c})

\* ServiceRequest.objects.filter(department=name).count()
count_department(name) ==
    Cardinality({i \in DOMAIN requests : requests[i].department = name})

\* d[k] = v on a dict
DictSet(d, k, v) == [x \in (DOMAIN d) \cup {k} |-> IF x = k THEN v ELSE d[x]]

EmptyDict == [x \in {} |-> 0]

\* Faulty variant of category_distribution_loop: the last category is left out
RECURSIVE category_distribution_loop_short(_, _)
category_distribution_loop_short(i, dist) ==
    IF i >= Len(CATEGORY_CHOICES) THEN dist
    ELSE category_distribution_loop_short(i + 1,
            DictSet(dist, CATEGORY_CHOICES[i][2], count_category(CATEGORY_CHOICES[i][1])))

\* for category_code, category_name in CATEGORY_CHOICES:
\*     category_distribution[category_name] = ...count()
RECURSIVE category_distribution_loop(_, _)
category_distribution_loop(i, dist) ==
    IF i > Len(CATEGORY_CHOICES) THEN dist
    ELSE category_distribution_loop(i + 1,
            DictSet(dist, CATEGORY_CHOICES[i][2], count_category(CATEGORY_CHOICES[i][1])))

\* Faulty variant of reduced_count: the count is not reduced
reduced_count_plain(actual_count) == actual_count

\* The dashboard's count: halved, but at least 1 when there is any request
reduced_count(actual_count) ==
    IF actual_count > 0
    THEN (IF actual_count \div 2 > 1 THEN actual_count \div 2 ELSE 1)
    ELSE 0

RECURSIVE category_stats_loop(_, _)
category_stats_loop(i, stats) ==
    IF i > Len(CATEGORY_CHOICES) THEN stats
    ELSE category_stats_loop(i + 1,
            DictSet(stats, CATEGORY_CHOICES[i][2],
                    reduced_count(count_category(CATEGORY_CHOICES[i][1]))))

\* ServiceRequestViewSet.stats (GET /api/requests/stats/)
ServiceRequestViewSet_stats(user) ==
    /\ UNCHANGED inflight
    /\ UNCHANGED <<requests, next_id, departments>>
    /\ IF ~IsStaffOnly(user)
       THEN resp' = Plain("ServiceRequestViewSet_stats", 403, FALSE)
       ELSE resp' = [Plain("ServiceRequestViewSet_stats", 200, TRUE) EXCEPT
                       !.data = [total_requests |-> Cardinality(DOMAIN requests),
                                 pending_requests |-> count_status("pending"),
                                 in_progress_requests |-> count_status("in_progress"),
                                 resolved_requests |-> count_status("resolved"),
                                 category_distribution |->
                                     category_distribution_loop(1, EmptyDict)]]

\* request_list (GET /requests/): the statistics block of the page
request_list(user) ==
    /\ UNCHANGED inflight
    /\ UNCHANGED <<requests, next_id, departments>>
    /\ IF ~login_required(user)
       THEN resp' = Plain("request_list", 302, FALSE)
       ELSE resp' = [Plain("request_list", 200, TRUE) EXCEPT
                       !.data = [total |-> Cardinality(DOMAIN requests),
                                 pending |-> count_status("pending"),
                                 in_progress |-> count_status("in_progress"),
                                 resolved |-> count_status("resolved")]]

\* dashboard (GET /dashboard/)
dashboard(user) ==
    /\ UNCHANGED inflight
    /\ UNCHANGED <<requests, next_id, departments>>
    /\ IF ~login_required(user)
       THEN resp' = Plain("dashboard", 302, FALSE)
       ELSE resp' = [Plain("dashboard", 200, TRUE) EXCEPT
                       !.data = [total_requests |-> Cardinality(DOMAIN requests),
                                 pending_requests |-> count_status("pending"),
                                 in_progress_requests |-> count_status("in_progress"),
                                 resolved_requests |-> count_status("resolved"),
                                 category_stats |-> category_stats_loop(1, EmptyDict)]]

\* ServiceRequest.objects.values_list('department', flat=True).distinct()
request_departments == {requests[i].department : i \in DOMAIN requests}

\* Faulty variant of departments_with_requests: the distinct department
\* values of the requests are counted, not the departments they name
departments_with_requests_distinct == Cardinality(request_departments)

\* Department.objects.filter(name__in=...).count()
departments_with_requests ==
    Cardinality({d \in departments : d.name \in request_departments})

\* for dept in departments: request_distribution[dept.name] = ...count()
request_distribution ==
    [name \in {d.name : d \in departments} |-> count_department(name)]

\* DepartmentViewSet.stats (GET /api/departments/stats/)
DepartmentViewSet_stats(user) ==
    /\ UNCHANGED inflight
    /\ UNCHANGED <<requests, next_id, departments>>
    /\ IF ~IsStaffOnly(user)
       THEN resp' = Plain("DepartmentViewSet_stats", 403, FALSE)
       ELSE resp' = [Plain("DepartmentViewSet_stats", 200, TRUE) EXCEPT
                       !.data = [total_departments |-> Cardinality(departments),
                                 departments_with_requests |-> departments_with_requests,
                                 request_distribution |-> request_distribution]]

PerPage == 10

\* department_list (GET /departments/): first page and the statistics block
department_list(user) ==
    /\ UNCHANGED inflight
    /\ UNCHANGED <<requests, next_id, departments>>
    /\ Cardinality(departments) <= PerPage
    /\ IF ~login_required(user)
       THEN resp' = Plain("department_list", 302, FALSE)
       ELSE resp' = [Plain("department_list", 200, TRUE) EXCEPT
                       !.data = [department_data |->
                                    {[department |-> d,
                                      request_count |-> count_department(d.name)]
                                        : d \in departments},
                                 total_departments |-> Cardinality(departments),
                                 departments_with_requests |-> departments_with_requests]]

----------------------------------------------------------------------------
(* views.py: departments *)

NameInputs == {str_empty, str_IT, str_it, str_sp_IT}
CodeInputs == {str_empty, str_it, str_hr}
ManagerInputs == {str_empty, str_Ann}

\* Faulty variant of IntegrityError: only name is unique
IntegrityError_name_only(others, name, code) ==
    \E d \in others : d.name = name

\* Department.objects.create / department.save(): the unique constraints on
\* name and code, checked against every other row
IntegrityError(others, name, code) ==
    \E d \in others : d.name = name \/ d.code = code

\* department_add (/departments/add/)
department_add(user, method, name_in, code_in, manager_in) ==
    LET name == Strip(name_in)
        code == Strip(code_in)
        manager == Strip(manager_in)
    IN
    /\ UNCHANGED inflight
    /\ UNCHANGED <<requests, next_id>>
    /\ IF ~login_required(user)
       THEN /\ UNCHANGED departments
            /\ resp' = Plain("department_add", 302, FALSE)
       ELSE IF method = "POST" /\ name # str_empty /\ code # str_empty
               /\ ~IntegrityError(departments, name, Upper(code))
       THEN /\ Cardinality(departments) < MaxDepartments
            /\ departments' = departments \cup
                                 {Department_row(name, Upper(code), manager)}
            /\ resp' = Plain("department_add", 302, TRUE)
       ELSE /\ UNCHANGED departments
            /\ resp' = [Plain("department_add", 200, FALSE) EXCEPT !.data =
                            IF method # "POST" THEN "form"
                            ELSE IF name = str_empty \/ code = str_empty
                            THEN "Department name and code are required."
                            ELSE "Error creating department"]

\* department_edit (/departments/<id>/edit/); pk stands for the id of the row
\* that has this name
department_edit(user, method, pk, name_in, code_in, manager_in) ==
    LET name == Strip(name_in)
        code == Strip(code_in)
        manager == Strip(manager_in)
    IN
    /\ UNCHANGED inflight
    /\ UNCHANGED <<requests, next_id>>
    /\ IF ~login_required(user)
       THEN /\ UNCHANGED departments
            /\ resp' = Plain("department_edit", 302, FALSE)
       ELSE IF ~\E d \in departments : d.name = pk
       THEN /\ UNCHANGED departments
            /\ resp' = Plain("department_edit", 404, FALSE)
       ELSE LET department == CHOOSE d \in departments : d.name = pk IN
            IF method = "POST" /\ name # str_empty /\ code # str_empty
               /\ ~IntegrityError(departments \ {department}, name, Upper(code))
            THEN /\ departments' = (departments \ {department}) \cup
                                      {Department_row(name, Upper(code), manager)}
                 /\ resp' = Plain("department_edit", 302, TRUE)
            ELSE /\ UNCHANGED departments
                 /\ resp' = [Plain("department_edit", 200, FALSE) EXCEPT !.data =
                                 IF method # "POST" THEN "form"
                                 ELSE IF name = str_empty \/ code = str_empty
                                 THEN "Department name and code are required."
                                 ELSE "Error updating department"]

\* department_delete (/departments/<id>/delete/)
department_delete(user, method, pk) ==
    /\ UNCHANGED inflight
    /\ UNCHANGED <<requests, next_id>>
    /\ IF ~login_required(user)
       THEN /\ UNCHANGED departments
            /\ resp' = Plain("department_delete", 302, FALSE)
       ELSE IF ~\E d \in departments : d.name = pk
       THEN /\ UNCHANGED departments
            /\ resp' = Plain("department_delete", 404, FALSE)
       ELSE LET department == CHOOSE d \in departments : d.name = pk
                request_count == count_department(department.name)
            IN IF method = "POST"
               THEN IF request_count > 0
                    THEN /\ UNCHANGED departments
                         /\ resp' = Plain("department_delete", 302, FALSE)
                    ELSE /\ departments' = departments \ {department}
                         /\ resp' = Plain("department_delete", 302, TRUE)
               ELSE /\ UNCHANGED departments
                    /\ resp' = Plain("department_delete", 200, FALSE)

----------------------------------------------------------------------------
(* api_views.py: departments *)

\* DepartmentSerializer.is_valid(): name and code are required, a CharField
\* trims its value, and the UniqueValidator of each unique model field looks
\* for another row with the same value
UniqueValidator(others, name, code) ==
    \E d \in others : d.name = name \/ d.code = code

\* DepartmentViewSet.create (POST /api/departments/)
DepartmentViewSet_create(user, name_in, code_in, manager_in) ==
    LET name == Strip(name_in)
        code == Strip(code_in)
        manager == Strip(manager_in)
    IN
    /\ UNCHANGED inflight
    /\ UNCHANGED <<requests, next_id>>
    /\ IF ~IsStaffOrReadOnly("POST", user)
       THEN /\ UNCHANGED departments
            /\ resp' = Plain("DepartmentViewSet_create", 403, FALSE)
       ELSE IF name = str_empty \/ code = str_empty
               \/ UniqueValidator(departments, name, code)
       THEN /\ UNCHANGED departments
            /\ resp' = Plain("DepartmentViewSet_create", 400, FALSE)
       ELSE /\ Cardinality(departments) < MaxDepartments
            /\ departments' = departments \cup {Department_row(name, code, manager)}
            /\ resp' = Plain("DepartmentViewSet_create", 201, TRUE)

\* DepartmentViewSet.update (PUT /api/departments/<id>/); pk stands for the
\* id of the row that has this name
DepartmentViewSet_update(user, pk, name_in, code_in, manager_in) ==
    LET name == Strip(name_in)
        code == Strip(code_in)
        manager == Strip(manager_in)
    IN
    /\ UNCHANGED inflight
    /\ UNCHANGED <<requests, next_id>>
    /\ IF ~IsStaffOrReadOnly("PUT", user)
       THEN /\ UNCHANGED departments
            /\ resp' = Plain("DepartmentViewSet_update", 403, FALSE)
       ELSE IF ~\E d \in departments : d.name = pk
       THEN /\ UNCHANGED departments
            /\ resp' = Plain("DepartmentViewSet_update", 404, FALSE)
       ELSE LET department == CHOOSE d \in departments : d.name = pk IN
            IF name = str_empty \/ code = str_empty
               \/ UniqueValidator(departments \ {department}, name, code)
            THEN /\ UNCHANGED departments
                 /\ resp' = Plain("DepartmentViewSet_update", 400, FALSE)
            ELSE /\ departments' = (departments \ {department}) \cup
                                      {Department_row(name, code, manager)}
                 /\ resp' = Plain("DepartmentViewSet_update", 200, TRUE)

\* DepartmentViewSet.destroy (DELETE /api/departments/<id>/): the inherited
\* ModelViewSet.destroy, which looks at no request
DepartmentViewSet_destroy(user, pk) ==
    /\ UNCHANGED inflight
    /\ UNCHANGED <<requests, next_id>>
    /\ IF ~IsStaffOrReadOnly("DELETE", user)
       THEN /\ UNCHANGED departments
            /\ resp' = Plain("DepartmentViewSet_destroy", 403, FALSE)
       ELSE IF ~\E d \in departments : d.name = pk
       THEN /\ UNCHANGED departments
            /\ resp' = Plain("DepartmentViewSet_destroy", 404, FALSE)
       ELSE /\ departments' = departments \ {CHOOSE d \in departments : d.name = pk}
            /\ resp' = Plain("DepartmentViewSet_destroy", 204, TRUE)

\* DepartmentViewSet.list (GET /api/departments/)
DepartmentViewSet_list(user) ==
    /\ UNCHANGED inflight
    /\ UNCHANGED <<requests, next_id, departments>>
    /\ IF ~IsStaffOrReadOnly("GET", user)
       THEN resp' = Plain("DepartmentViewSet_list", 403, FALSE)
       ELSE resp' = [Plain("DepartmentViewSet_list", 200, TRUE) EXCEPT
                       !.data = {d.name : d \in departments}]

----------------------------------------------------------------------------
(* Directory sync: DepartmentViewSet.sync_api and views.sync_departments_api *)

str_Bob == <<"B","o","b">>
str_Department_A == str_Department_ \o <<"A">>
str_Department_B == str_Department_ \o <<"B">>

user_3 == FeedUser(TRUE, 3, TRUE, str_Bob, TRUE, str_IT)
user_4 == FeedUser(TRUE, 4, FALSE, str_empty, TRUE, str_hr)
user_5 == FeedUser(TRUE, 5, TRUE, str_Ann, TRUE, str_Department_A)
user_6 == FeedUser(TRUE, 6, TRUE, str_Ann, TRUE, str_Department_B)

\* What req.get(...) can give the sync: an exception (connection error,
\* timeout), a status code, and the decoded JSON list
SyncFeedResponses ==
    { [raised |-> TRUE, status_code |-> 0, users |-> <<>>],
      [raised |-> FALSE, status_code |-> 500, users |-> <<user_1>>],
      [raised |-> FALSE, status_code |-> 200, users |-> <<>>],
      [raised |-> FALSE, status_code |-> 200, users |-> <<user_1>>],
      [raised |-> FALSE, status_code |-> 200, users |-> <<user_3>>],
      [raised |-> FALSE, status_code |-> 200, users |-> <<user_1, user_2, user_4>>],
      [raised |-> FALSE, status_code |-> 200, users |-> <<user_1, user_3>>],
      [raised |-> FALSE, status_code |-> 200, users |-> <<user_1, user_1b, user_4>>],
      [raised |-> FALSE, status_code |-> 200, users |-> <<user_5, user_6>>] }

\* s.replace(c, '')
RECURSIVE Remove(_, _)
Remove(s, c) ==
    IF s = <<>> THEN <<>>
    ELSE IF Head(s) = c THEN Remove(Tail(s), c)
    ELSE <<Head(s)>> \o Remove(Tail(s), c)

\* s[:n]
Take(s, n) == SubSeq(s, 1, IF Len(s) < n THEN Len(s) ELSE n)

CodeLimit == 10

\* dept_code = dept_name[:10].upper().replace(' ', '')
dept_code(dept_name) == Remove(Upper(Take(dept_name, CodeLimit)), " ")

SyncResult(depts, created_count, updated_count, raised) ==
    [departments |-> depts, created |-> created_count,
     updated |-> updated_count, raised |-> raised]

\* Faulty variant of sync_entity: the row of an existing department is
\* rewritten from the feed, code included
sync_entity_rewrites_code(depts, user) ==
    IF ~user.has_company_name
    THEN SyncResult(depts, 0, 0, FALSE)
    ELSE LET dept_name == user.company_name
             manager == IF user.has_name THEN user.name ELSE str_Unknown
             got == get_or_create(depts, dept_name, dept_code(dept_name), manager)
         IN IF got.raised THEN SyncResult(depts, 0, 0, TRUE)
            ELSE IF got.created THEN SyncResult(got.departments, 1, 0, FALSE)
            ELSE IF got.department.manager # manager
            THEN SyncResult((depts \ {got.department}) \cup
                               {Department_row(dept_name, dept_code(dept_name),
                                               manager)},
                            0, 1, FALSE)
            ELSE SyncResult(depts, 0, 0, FALSE)

\* The body of the for loop of the sync for one user of the feed: a user
\* without company.name is passed over; get_or_create by name; the manager
\* of an existing row is replaced when it differs
sync_entity(depts, user) ==
    IF ~user.has_company_name
    THEN SyncResult(depts, 0, 0, FALSE)
    ELSE LET dept_name == user.company_name
             manager == IF user.has_name THEN user.name ELSE str_Unknown
             got == get_or_create(depts, dept_name, dept_code(dept_name), manager)
         IN IF got.raised THEN SyncResult(depts, 0, 0, TRUE)
            ELSE IF got.created THEN SyncResult(got.departments, 1, 0, FALSE)
            ELSE IF got.department.manager # manager
            THEN SyncResult((depts \ {got.department}) \cup
                               {[got.department EXCEPT !.manager = manager]},
                            0, 1, FALSE)
            ELSE SyncResult(depts, 0, 0, FALSE)

\* The for loop of the sync: one try block around the whole loop, so the
\* first exception ends it; the rows written before stay written
RECURSIVE sync_loop(_, _, _, _)
sync_loop(users, depts, created_count, updated_count) ==
    IF users = <<>>
    THEN SyncResult(depts, created_count, updated_count, FALSE)
    ELSE LET one == sync_entity(depts, Head(users)) IN
         IF one.raised
         THEN SyncResult(depts, created_count, updated_count, TRUE)
         ELSE sync_loop(Tail(users), one.departments,
                        created_count + one.created, updated_count + one.updated)

\* Faulty variant of sync_fetched: the status code is not looked at
sync_fetched_any_status(feed) == ~feed.raised

\* response.status_code == 200 is the only test of the fetch; an exception
\* of req.get is caught by the try block
sync_fetched(feed) == ~feed.raised /\ feed.status_code = 200

\* The answers of the sync
SyncCompleted(op, code, created_count, updated_count) ==
    [Plain(op, code, TRUE) EXCEPT
        !.data = [message |-> "API Sync completed", created |-> created_count,
                  updated |-> updated_count]]
SyncFailed(op, code, message) ==
    [Plain(op, code, FALSE) EXCEPT
        !.data = [message |-> message, created |-> 0, updated |-> 0]]

\* DepartmentViewSet.sync_api (POST /api/departments/sync-api/)
sync_api(user, feed) ==
    /\ UNCHANGED inflight
    /\ UNCHANGED <<requests, next_id>>
    /\ IF ~IsStaffOnly(user)
       THEN /\ UNCHANGED departments
            /\ resp' = Plain("sync_api", 403, FALSE)
       ELSE IF feed.raised
       THEN /\ UNCHANGED departments
            /\ resp' = SyncFailed("sync_api", 500, "Error syncing with API")
       ELSE IF ~sync_fetched(feed)
       THEN /\ UNCHANGED departments
            /\ resp' = SyncFailed("sync_api", 500,
                                  "Failed to fetch data from external API.")
       ELSE LET out == sync_loop(feed.users, departments, 0, 0) IN
            /\ Cardinality(out.departments) <= MaxDepartments
            /\ departments' = out.departments
            /\ resp' = IF out.raised
                       THEN SyncFailed("sync_api", 500, "Error syncing with API")
                       ELSE SyncCompleted("sync_api", 200, out.created, out.updated)

\* sync_departments_api (/departments/sync-api/): the outcome is a flash
\* message and a redirect to the department list
sync_departments_api(user, method, feed) ==
    /\ UNCHANGED inflight
    /\ UNCHANGED <<requests, next_id>>
    /\ IF ~login_required(user)
       THEN /\ UNCHANGED departments
            /\ resp' = Plain("sync_departments_api", 302, FALSE)
       ELSE IF method # "POST"
       THEN /\ UNCHANGED departments
            /\ resp' = Plain("sync_departments_api", 302, FALSE)
       ELSE IF feed.raised
       THEN /\ UNCHANGED departments
            /\ resp' = SyncFailed("sync_departments_api", 302,
                                  "Error syncing with API")
       ELSE IF ~sync_fetched(feed)
       THEN /\ UNCHANGED departments
            /\ resp' = SyncFailed("sync_departments_api", 302,
                                  "Failed to fetch data from external API.")
       ELSE LET out == sync_loop(feed.users, departments, 0, 0) IN
            /\ Cardinality(out.departments) <= MaxDepartments
            /\ departments' = out.departments
            /\ resp' = IF out.raised
                       THEN SyncFailed("sync_departments_api", 302,
                                       "Error syncing with API")
                       ELSE SyncCompleted("sync_departments_api", 302,
                                          out.created, out.updated)

----------------------------------------------------------------------------
(* The system *)

PkInputs == {str_IT, str_it}

\* The feed is contacted only while the Department table is empty
FeedChoice(feeds) ==
    IF departments = {} THEN feeds
    ELSE {[raised |-> TRUE, status_code |-> 0, users |-> <<>>]}

\* The inputs tried where a view reads them (on a POST, for a caller who
\* passes the gate of the view): all of them; elsewhere one
Tried(read, inputs) == IF read THEN inputs ELSE {CHOOSE x \in inputs : TRUE}

\* Every view, every input
Next ==
    \/ \E user \in Callers, method \in Methods, feed \in FeedChoice(FeedResponses),
          has_text \in BOOLEAN, department \in DepartmentInputs,
          category \in CategoryInputs :
            home(user, method, feed, has_text, department, category)
    \/ \E user \in Callers, has_text \in BOOLEAN, department \in DepartmentInputs,
          category \in CategoryInputs :
            submit_request(user, has_text, department, category)
    \/ \E user \in Callers, department \in DepartmentInputs,
          category \in CategoryInputs, status \in StatusInputs,
          assigned_to \in Users \cup {None} :
            ServiceRequestViewSet_create(user, department, category, status, assigned_to)
    \/ \E user \in Callers, id \in RequestIds, status \in StatusInputs,
          assigned_to \in Users \cup {None} :
            ServiceRequestViewSet_update(user, id, status, assigned_to)
    \/ \E user \in Callers, id \in RequestIds :
            ServiceRequestViewSet_destroy(user, id)
    \/ \E user \in Callers, id \in RequestIds, status \in StatusInputs :
            update_status(user, id, status)
    \/ \E user \in Callers, method \in Methods, id \in RequestIds,
          status \in StatusInputs :
            update_request_status(user, method, id, status)
    \/ \E user \in Callers, change \in BOOLEAN, id \in RequestIds,
          department \in DepartmentInputs, category \in CategoryInputs,
          status \in StatusInputs, assigned_to \in Users \cup {None} :
            ServiceRequestAdmin_save_model(user, change, id, department, category,
                                           status, assigned_to)
    \/ \E user \in Callers : ServiceRequestViewSet_stats(user)
    \/ \E user \in Callers : request_list(user)
    \/ \E user \in Callers : dashboard(user)
    \/ \E user \in Callers : DepartmentViewSet_stats(user)
    \/ \E user \in Callers : department_list(user)
    \/ \E user \in Callers, method \in Methods, name \in NameInputs,
          code \in CodeInputs, manager \in ManagerInputs :
            department_add(user, method, name, code, manager)
    \/ \E user \in Callers, method \in Methods, pk \in PkInputs,
          name \in NameInputs, code \in CodeInputs, manager \in ManagerInputs :
            department_edit(user, method, pk, name, code, manager)
    \/ \E user \in Callers, method \in Methods, pk \in PkInputs :
            department_delete(user, method, pk)
    \/ \E user \in Callers, id \in RequestIds :
            ServiceRequestAdmin_delete_model(user, id)
    \/ \E user \in Callers, name \in NameInputs, code \in CodeInputs,
          manager \in ManagerInputs :
            DepartmentViewSet_create(user, name, code, manager)
    \/ \E user \in Callers, pk \in PkInputs, name \in NameInputs,
          code \in CodeInputs, manager \in ManagerInputs :
            DepartmentViewSet_update(user, pk, name, code, manager)
    \/ \E user \in Callers, pk \in PkInputs :
            DepartmentViewSet_destroy(user, pk)
    \/ \E user \in Callers, feed \in SyncFeedResponses :
            sync_api(user, feed)
    \/ \E user \in Callers, method \in Methods, feed \in SyncFeedResponses :
            sync_departments_api(user, method, feed)
    \/ \E user \in Callers : ServiceRequestViewSet_list(user)
    \/ \E user \in Callers : DepartmentViewSet_list(user)

Spec == Init /\ [][Next]_vars

----------------------------------------------------------------------------
(* The request lifecycle: submission, staff edits, status updates, request  *)
(* statistics.  Requests are submitted for one department and one category, *)
(* the feed is down, and the Department table is left alone.                *)

LifecycleDepartmentInputs == {str_empty, str_IT, str_sp_IT}
LifecycleCategoryInputs == {"password_reset", "bogus"}
LifecycleFeedResponses == {[raised |-> TRUE, status_code |-> 0, users |-> <<>>]}

\* What a staff member fills in for a request: every valid combination of
\* status and assignee, and one form per kind of invalid field
StaffForm(department, category, status, assigned_to) ==
    [department |-> department, category |-> category, status |-> status,
     assigned_to |-> assigned_to]
StaffForms ==
    {StaffForm(str_IT, "password_reset", s, a) :
        s \in ChoiceCodes(STATUS_CHOICES), a \in Users \cup {None}}
    \cup {StaffForm(str_empty, "password_reset", "pending", None),
          StaffForm(str_IT, "bogus", "pending", None),
          StaffForm(str_IT, "password_reset", "bogus", None),
          StaffForm(str_IT, "password_reset", None, None)}

NextLifecycle ==
    \/ \E user \in Callers, method \in Methods,
          feed \in FeedChoice(LifecycleFeedResponses) :
         \E has_text \in Tried(method = "POST", BOOLEAN),
            department \in Tried(method = "POST", LifecycleDepartmentInputs),
            category \in Tried(method = "POST", LifecycleCategoryInputs) :
            home(user, method, feed, has_text, department, category)
    \/ \E user \in Callers, has_text \in BOOLEAN,
          department \in LifecycleDepartmentInputs,
          category \in LifecycleCategoryInputs :
            submit_request(user, has_text, department, category)
    \/ \E user \in Callers :
         \E form \in Tried(IsStaffOrReadOnly("POST", user), StaffForms) :
            ServiceRequestViewSet_create(user, form.department, form.category,
                                         form.status, form.assigned_to)
    \/ \E user \in Callers :
         \E id \in Tried(IsStaffOrReadOnly("PUT", user), RequestIds),
            form \in Tried(IsStaffOrReadOnly("PUT", user), StaffForms) :
            ServiceRequestViewSet_update(user, id, form.status, form.assigned_to)
    \/ \E user \in Callers :
         \E id \in Tried(IsStaffOrReadOnly("DELETE", user), RequestIds) :
            ServiceRequestViewSet_destroy(user, id)
    \/ \E user \in Callers :
         \E id \in Tried(IsStaffOnly(user), RequestIds),
            status \in Tried(IsStaffOnly(user), StatusInputs) :
            update_status(user, id, status)
    \/ \E user \in Callers, method \in Methods :
         \E id \in Tried(login_required(user) /\ method = "POST", RequestIds),
            status \in Tried(login_required(user) /\ method = "POST", StatusInputs) :
            update_request_status(user, method, id, status)
    \/ \E user \in Callers, change \in BOOLEAN :
         \E id \in Tried(change, RequestIds),
            form \in Tried(admin_has_permission(user), StaffForms) :
            ServiceRequestAdmin_save_model(user, change, id, form.department,
                                           form.category, form.status,
                                           form.assigned_to)
    \/ \E user \in Callers :
         \E id \in Tried(admin_has_permission(user), RequestIds) :
            ServiceRequestAdmin_delete_model(user, id)
    \/ \E user \in Callers : ServiceRequestViewSet_stats(user)
    \/ \E user \in Callers : request_list(user)
    \/ \E user \in Callers : dashboard(user)

SpecLifecycle == Init /\ [][NextLifecycle]_vars

----------------------------------------------------------------------------
(* The directory: submissions for every department and category, the        *)
(* management of departments, and the statistics per category and per       *)
(* department.  Requests stay as submitted.                                 *)

NextDirectory ==
    \/ \E user \in Callers, method \in Methods, feed \in FeedChoice(FeedResponses) :
         \E has_text \in Tried(method = "POST", BOOLEAN),
            department \in Tried(method = "POST", DepartmentInputs),
            category \in Tried(method = "POST", CategoryInputs) :
            home(user, method, feed, has_text, department, category)
    \/ \E user \in Callers : ServiceRequestViewSet_stats(user)
    \/ \E user \in Callers : dashboard(user)
    \/ \E user \in Callers : DepartmentViewSet_stats(user)
    \/ \E user \in Callers : department_list(user)
    \/ \E user \in Callers, method \in Methods :
         \E name \in Tried(login_required(user) /\ method = "POST", NameInputs),
            code \in Tried(login_required(user) /\ method = "POST", CodeInputs),
            manager \in Tried(login_required(user) /\ method = "POST", ManagerInputs) :
            department_add(user, method, name, code, manager)
    \/ \E user \in Callers, method \in Methods, pk \in PkInputs :
         \E name \in Tried(login_required(user) /\ method = "POST", NameInputs),
            code \in Tried(login_required(user) /\ method = "POST", CodeInputs),
            manager \in Tried(login_required(user) /\ method = "POST", ManagerInputs) :
            department_edit(user, method, pk, name, code, manager)
    \/ \E user \in Callers, method \in Methods, pk \in PkInputs :
            department_delete(user, method, pk)

SpecDirectory == Init /\ [][NextDirectory]_vars

----------------------------------------------------------------------------
(* The department directory: the form that loads departments, the web and
   API department views and the two sync views *)

AdministrationNameInputs == {str_empty, str_IT, str_sp_IT, str_hr}
AdministrationCodeInputs == {str_empty, str_it, str_hr}
AdministrationPkInputs == {str_IT, str_hr}
AdministrationFeedResponses ==
    { [raised |-> TRUE, status_code |-> 0, users |-> <<>>],
      [raised |-> FALSE, status_code |-> 200, users |-> <<user_1, user_1b>>] }

NextAdministration ==
    \/ \E user \in Callers, method \in Methods,
          feed \in FeedChoice(AdministrationFeedResponses) :
         \E department \in Tried(method = "POST", {str_IT, str_hr}) :
            home(user, method, feed, TRUE, department, "password_reset")
    \/ \E user \in Callers, method \in Methods :
         \E name \in Tried(login_required(user) /\ method = "POST",
                           AdministrationNameInputs),
            code \in Tried(login_required(user) /\ method = "POST",
                           AdministrationCodeInputs) :
            department_add(user, method, name, code, str_Ann)
    \/ \E user \in Callers, method \in Methods :
         \E pk \in Tried(login_required(user), AdministrationPkInputs),
            name \in Tried(login_required(user) /\ method = "POST",
                           AdministrationNameInputs),
            code \in Tried(login_required(user) /\ method = "POST",
                           AdministrationCodeInputs) :
            department_edit(user, method, pk, name, code, str_Ann)
    \/ \E user \in Callers, method \in Methods :
         \E pk \in Tried(login_required(user), AdministrationPkInputs) :
            department_delete(user, method, pk)
    \/ \E user \in Callers :
         \E name \in Tried(IsStaffOrReadOnly("POST", user), AdministrationNameInputs),
            code \in Tried(IsStaffOrReadOnly("POST", user), AdministrationCodeInputs) :
            DepartmentViewSet_create(user, name, code, str_Ann)
    \/ \E user \in Callers :
         \E pk \in Tried(IsStaffOrReadOnly("PUT", user), AdministrationPkInputs),
            name \in Tried(IsStaffOrReadOnly("PUT", user), AdministrationNameInputs),
            code \in Tried(IsStaffOrReadOnly("PUT", user), AdministrationCodeInputs) :
            DepartmentViewSet_update(user, pk, name, code, str_Ann)
    \/ \E user \in Callers :
         \E pk \in Tried(IsStaffOrReadOnly("DELETE", user), AdministrationPkInputs) :
            DepartmentViewSet_destroy(user, pk)
    \/ \E user \in Callers :
         \E feed \in Tried(IsStaffOnly(user), SyncFeedResponses) :
            sync_api(user, feed)
    \/ \E user \in Callers, method \in Methods :
         \E feed \in Tried(login_required(user) /\ method = "POST",
                           SyncFeedResponses) :
            sync_departments_api(user, method, feed)

SpecAdministration == Init /\ [][NextAdministration]_vars

----------------------------------------------------------------------------
(* Access: every view that reads or writes a request or a department, each
   with one well-formed input, called by every kind of caller *)

AccessStatusInputs == {"in_progress", "resolved"}
AccessFeedResponses ==
    { [raised |-> TRUE, status_code |-> 0, users |-> <<>>],
      [raised |-> FALSE, status_code |-> 200, users |-> <<user_1>>] }
AccessPkInputs == {str_IT}

NextAccess ==
    \/ \E user \in Callers, method \in Methods,
          feed \in FeedChoice(LifecycleFeedResponses) :
            home(user, method, feed, TRUE, str_IT, "password_reset")
    \/ \E user \in Callers :
            ServiceRequestViewSet_create(user, str_IT, "password_reset", "pending", None)
    \/ \E user \in Callers :
         \E id \in Tried(IsStaffOrReadOnly("PUT", user), RequestIds) :
            ServiceRequestViewSet_update(user, id, "resolved", None)
    \/ \E user \in Callers :
         \E id \in Tried(IsStaffOrReadOnly("DELETE", user), RequestIds) :
            ServiceRequestViewSet_destroy(user, id)
    \/ \E user \in Callers : ServiceRequestViewSet_list(user)
    \/ \E user \in Callers :
         \E id \in Tried(IsStaffOnly(user), RequestIds),
            status \in Tried(IsStaffOnly(user), AccessStatusInputs) :
            update_status(user, id, status)
    \/ \E user \in Callers, method \in Methods :
         \E id \in Tried(login_required(user) /\ method = "POST", RequestIds),
            status \in Tried(login_required(user) /\ method = "POST",
                             AccessStatusInputs) :
            update_request_status(user, method, id, status)
    \/ \E user \in Callers, method \in Methods :
            department_add(user, method, str_hr, str_hr, str_Ann)
    \/ \E user \in Callers, method \in Methods, pk \in AccessPkInputs :
            department_edit(user, method, pk, str_IT, str_it, str_Bob)
    \/ \E user \in Callers, method \in Methods, pk \in AccessPkInputs :
            department_delete(user, method, pk)
    \/ \E user \in Callers :
            DepartmentViewSet_create(user, str_hr, str_hr, str_Ann)
    \/ \E user \in Callers, pk \in AccessPkInputs :
            DepartmentViewSet_update(user, pk, str_IT, str_it, str_Bob)
    \/ \E user \in Callers, pk \in AccessPkInputs :
            DepartmentViewSet_destroy(user, pk)
    \/ \E user \in Callers : DepartmentViewSet_list(user)
    \/ \E user \in Callers :
         \E feed \in Tried(IsStaffOnly(user), AccessFeedResponses) :
            sync_api(user, feed)
    \/ \E user \in Callers, method \in Methods :
         \E feed \in Tried(login_required(user) /\ method = "POST",
                           AccessFeedResponses) :
            sync_departments_api(user, method, feed)

SpecAccess == Init /\ [][NextAccess]_vars

----------------------------------------------------------------------------
(* Concurrency: requests are submitted, and two workers each serve one      *)
(* status update, through either view, step by step                         *)

RaceStatusInputs == {"in_progress", "resolved", "bogus"}

NextRace ==
    \/ \E user \in Callers, method \in Methods,
          feed \in FeedChoice(LifecycleFeedResponses) :
            home(user, method, feed, TRUE, str_IT, "password_reset")
    \/ \E w \in Workers, user \in Callers :
         \E id \in Tried(IsStaffOnly(user), RequestIds),
            status \in Tried(IsStaffOnly(user), RaceStatusInputs) :
            update_status_get_object(w, user, id, status)
    \/ \E w \in Workers : update_status_save(w)
    \/ \E w \in Workers, user \in Callers :
         \E id \in Tried(login_required(user), RequestIds),
            status \in Tried(login_required(user), RaceStatusInputs) :
            update_request_status_get_object_or_404(w, user, id, status)
    \/ \E w \in Workers : update_request_status_save(w)

SpecRace == Init /\ [][NextRace]_vars

----------------------------------------------------------------------------
(* Properties of the status update *)

\* The two views that update a status.  An update that writes answers with
\* the id of the request it wrote.
UpdateOps == {"update_status", "update_request_status"}

\* C1: a status update with new_status = in_progress on an existing request
\* (API update_status by a staff caller, web update_request_status by a
\* logged-in caller) stores the acting user as assigned_to when assigned_to
\* was unset, and leaves assigned_to as it was when it was set.
C1_AutoAssignOnInProgress ==
    [][(resp'.op \in UpdateOps /\ resp'.id \in DOMAIN requests)
       => \A user \in Callers :
            (\/ /\ IsStaffOnly(user)
                /\ resp'.op = "update_status"
                /\ update_status(user, resp'.id, "in_progress")
             \/ /\ login_required(user)
                /\ resp'.op = "update_request_status"
                /\ update_request_status(user, "POST", resp'.id, "in_progress"))
            => requests'[resp'.id].assigned_to =
                  IF requests[resp'.id].assigned_to = None
                  THEN user
                  ELSE requests[resp'.id].assigned_to]_vars

\* C1 witness: the API update (its caller is the staff user bob) has moved a
\* request to in_progress and the request is still assigned to alice.
C1_Witness ==
    /\ resp.op = "update_status"
    /\ resp.id \in DOMAIN requests
    /\ requests[resp.id].status = "in_progress"
    /\ requests[resp.id].assigned_to = "alice"

IsNotFound(r) == r.code = 404
IsValidationError(r) ==
    \/ r.op = "update_status" /\ r.code = 400
    \/ r.op = "update_request_status" /\ r.code = 200 /\ ~r.success

----------------------------------------------------------------------------
(* Properties of the stored requests *)

\* C5: every stored request has a status of the enumeration.
C5_StatusInEnumeration ==
    \A id \in DOMAIN requests :
        requests[id].status \in {"pending", "in_progress", "resolved", "closed"}

\* C5 witness: after a status update, one request is closed and another is
\* resolved.
C5_Witness ==
    /\ resp.op \in UpdateOps
    /\ \E i, j \in DOMAIN requests :
          requests[i].status = "closed" /\ requests[j].status = "resolved"

\* C6: a request created with no status supplied (the public submissions
\* home and submit_request, the API create without a status) is stored as
\* pending; a publicly submitted one has assigned_to unset.
C6_CreatedPending ==
    [][next_id' # next_id =>
         /\ resp'.op \in {"home", "submit_request"}
            => /\ requests'[next_id].status = "pending"
               /\ requests'[next_id].assigned_to = None
         /\ (/\ resp'.op = "ServiceRequestViewSet_create"
             /\ \E user \in Callers, form \in StaffForms :
                   ServiceRequestViewSet_create(user, form.department,
                       form.category, None, form.assigned_to))
            => requests'[next_id].status = "pending"]_vars

\* C6 witness: the public form has just created a request.
C6_Witness ==
    /\ resp.op = "home"
    /\ resp.success
    /\ resp.id \in DOMAIN requests
    /\ requests[resp.id].status = "pending"
    /\ requests[resp.id].assigned_to = None

----------------------------------------------------------------------------
(* Properties of the statistics *)

\* The three counts of a request statistics answer
StatsOps == {"ServiceRequestViewSet_stats", "request_list", "dashboard"}
CountsOf(r) ==
    IF r.op = "request_list"
    THEN [total |-> r.data.total, pending |-> r.data.pending,
          in_progress |-> r.data.in_progress, resolved |-> r.data.resolved]
    ELSE [total |-> r.data.total_requests, pending |-> r.data.pending_requests,
          in_progress |-> r.data.in_progress_requests,
          resolved |-> r.data.resolved_requests]

\* C7 as stated: the counts of the request statistics (none of the three
\* answers has a closed count) satisfy pending + in_progress + resolved = total.
C7_CountsSumToTotal ==
    (resp.op \in StatsOps /\ resp.success)
    => CountsOf(resp).pending + CountsOf(resp).in_progress
          + CountsOf(resp).resolved = CountsOf(resp).total

\* C7 amended: pending + in_progress + resolved + (the number of stored
\* requests that are closed) = total; the three counts sum to total exactly
\* when no stored request is closed.
C7_CountsSumWithClosed ==
    (resp.op \in StatsOps /\ resp.success)
    => /\ CountsOf(resp).total = Cardinality(DOMAIN requests)
       /\ CountsOf(resp).pending + CountsOf(resp).in_progress
             + CountsOf(resp).resolved
             + Cardinality({i \in DOMAIN requests : requests[i].status = "closed"})
          = CountsOf(resp).total

\* C7 witness: statistics answered while a closed and a pending request are
\* stored.
C7_Witness ==
    /\ resp.op \in StatsOps
    /\ resp.success
    /\ \E i, j \in DOMAIN requests :
          requests[i].status = "closed" /\ requests[j].status = "pending"

\* Sum of dist over the labels of CATEGORY_CHOICES[i..]
RECURSIVE SumFrom(_, _)
SumFrom(dist, i) ==
    IF i > Len(CATEGORY_CHOICES) THEN 0
    ELSE dist[CATEGORY_CHOICES[i][2]] + SumFrom(dist, i + 1)

\* C8: category_distribution of the API statistics has one entry per
\* category of the enumeration, each the number of stored requests of that
\* category, and the entries sum to the number of stored requests.
C8_CategoryDistribution ==
    (resp.op = "ServiceRequestViewSet_stats" /\ resp.success)
    => LET dist == resp.data.category_distribution IN
       /\ DOMAIN dist = {CATEGORY_CHOICES[i][2] : i \in 1..Len(CATEGORY_CHOICES)}
       /\ Cardinality(DOMAIN dist) = Len(CATEGORY_CHOICES)
       /\ \A i \in 1..Len(CATEGORY_CHOICES) :
             dist[CATEGORY_CHOICES[i][2]] =
                Cardinality({id \in DOMAIN requests :
                                requests[id].category = CATEGORY_CHOICES[i][1]})
       /\ SumFrom(dist, 1) = Cardinality(DOMAIN requests)

\* C8 witness: the API statistics answered with one request in each of two
\* categories.
C8_Witness ==
    /\ resp.op = "ServiceRequestViewSet_stats"
    /\ resp.success
    /\ resp.data.category_distribution["Password Reset"] = 1
    /\ resp.data.category_distribution["Other"] = 1
    /\ resp.data.category_distribution["Printer Issue"] = 0

\* C9 as stated: the dashboard's per-category statistics are the numbers of
\* stored requests per category.
C9_DashboardCounts ==
    (resp.op = "dashboard" /\ resp.success)
    => \A i \in 1..Len(CATEGORY_CHOICES) :
          resp.data.category_stats[CATEGORY_CHOICES[i][2]] =
             Cardinality({id \in DOMAIN requests :
                             requests[id].category = CATEGORY_CHOICES[i][1]})

\* C9 amended: for every category the dashboard gives 0 when no stored
\* request is of that category and otherwise the larger of 1 and half the
\* number of such requests, rounded down.
C9_DashboardHalved ==
    (resp.op = "dashboard" /\ resp.success)
    => /\ DOMAIN resp.data.category_stats =
             {CATEGORY_CHOICES[i][2] : i \in 1..Len(CATEGORY_CHOICES)}
       /\ \A i \in 1..Len(CATEGORY_CHOICES) :
             LET n == Cardinality({id \in DOMAIN requests :
                                      requests[id].category = CATEGORY_CHOICES[i][1]})
                 shown == resp.data.category_stats[CATEGORY_CHOICES[i][2]]
             IN /\ n = 0 => shown = 0
                /\ n > 0 => shown = (IF n \div 2 > 1 THEN n \div 2 ELSE 1)

\* C9 witness: the dashboard shows 1 for a category that holds two requests.
C9_Witness ==
    /\ resp.op = "dashboard"
    /\ resp.success
    /\ Cardinality({id \in DOMAIN requests :
                       requests[id].category = "password_reset"}) = 2
    /\ resp.data.category_stats["Password Reset"] = 1

\* C10: department statistics give the number of departments, per
\* department the number of requests whose department text is exactly its
\* name, and the number of departments with at least one such request; a
\* request whose department text is no department's name is counted nowhere.
C10_DepartmentStats ==
    /\ (resp.op = "DepartmentViewSet_stats" /\ resp.success)
       => LET dist == resp.data.request_distribution IN
          /\ resp.data.total_departments = Cardinality(departments)
          /\ DOMAIN dist = {d.name : d \in departments}
          /\ \A d \in departments :
                dist[d.name] = Cardinality({id \in DOMAIN requests :
                                               requests[id].department = d.name})
          /\ resp.data.departments_with_requests =
                Cardinality({d \in departments : dist[d.name] >= 1})
    /\ (resp.op = "department_list" /\ resp.success)
       => /\ resp.data.total_departments = Cardinality(departments)
          /\ resp.data.department_data =
                {[department |-> d,
                  request_count |-> Cardinality({id \in DOMAIN requests :
                                        requests[id].department = d.name})]
                    : d \in departments}
          /\ resp.data.departments_with_requests =
                Cardinality({d \in departments :
                    \E id \in DOMAIN requests : requests[id].department = d.name})

\* C10 witness: the API department statistics answered for two departments,
\* one of them with a request, while another request names no department.
C10_Witness ==
    /\ resp.op = "DepartmentViewSet_stats"
    /\ resp.success
    /\ resp.data.total_departments = 2
    /\ resp.data.departments_with_requests = 1
    /\ \E id \in DOMAIN requests :
          \A d \in departments : d.name # requests[id].department

----------------------------------------------------------------------------
(* Properties of the directory sync *)

\* The two views that run the sync
SyncOps == {"sync_api", "sync_departments_api"}

\* A step of one of the two sync views by a caller who passes its gate
SyncStep(user, feed) ==
    \/ /\ IsStaffOnly(user)
       /\ resp'.op = "sync_api"
       /\ sync_api(user, feed)
    \/ /\ login_required(user)
       /\ resp'.op = "sync_departments_api"
       /\ sync_departments_api(user, "POST", feed)

\* The department names of a feed
FeedNames(feed) ==
    {feed.users[i].company_name :
        i \in {j \in 1..Len(feed.users) : feed.users[j].has_company_name}}

\* C11: a sync run on a store with no departments reports created = the
\* number of distinct department names of the feed; a second run against
\* the same feed, on the store the first run left, reports created = 0 and
\* updated = 0 and changes no department.
C11_SyncTwice ==
    [][resp'.op \in SyncOps
       => \A user \in Callers, feed \in SyncFeedResponses :
            (sync_fetched(feed) /\ SyncStep(user, feed))
            => /\ departments = {}
                  => /\ resp'.success
                     /\ resp'.data.created = Cardinality(FeedNames(feed))
               /\ (/\ resp.op \in SyncOps
                   /\ departments # {}
                   /\ departments = sync_loop(feed.users, {}, 0, 0).departments)
                  => /\ resp'.success
                     /\ resp'.data.created = 0
                     /\ resp'.data.updated = 0
                     /\ departments' = departments]_vars

\* The upsert policy as C12 states it, for one entity that names a
\* department: create when the name is absent, replace the manager when it
\* differs, else nothing
C12_Entity(depts, user) ==
    LET name == user.company_name
        manager == IF user.has_name THEN user.name ELSE str_Unknown
    IN IF ~\E d \in depts : d.name = name
       THEN SyncResult(depts \cup {Department_row(name, dept_code(name), manager)},
                       1, 0, FALSE)
       ELSE LET stored == CHOOSE d \in depts : d.name = name IN
            IF stored.manager # manager
            THEN SyncResult((depts \ {stored}) \cup
                               {Department_row(stored.name, stored.code, manager)},
                            0, 1, FALSE)
            ELSE SyncResult(depts, 0, 0, FALSE)

\* The policy applied to the entities of a feed in order
RECURSIVE C12_Feed(_, _, _, _)
C12_Feed(users, depts, created_count, updated_count) ==
    IF users = <<>>
    THEN SyncResult(depts, created_count, updated_count, FALSE)
    ELSE IF ~Head(users).has_company_name
    THEN C12_Feed(Tail(users), depts, created_count, updated_count)
    ELSE LET one == C12_Entity(depts, Head(users)) IN
         C12_Feed(Tail(users), one.departments,
                  created_count + one.created, updated_count + one.updated)

\* The same with the uniqueness of code: a create whose derived code is the
\* code of another department fails, and the sync stops there
RECURSIVE C12_FeedUnique(_, _, _, _)
C12_FeedUnique(users, depts, created_count, updated_count) ==
    IF users = <<>>
    THEN SyncResult(depts, created_count, updated_count, FALSE)
    ELSE IF ~Head(users).has_company_name
    THEN C12_FeedUnique(Tail(users), depts, created_count, updated_count)
    ELSE IF /\ ~\E d \in depts : d.name = Head(users).company_name
            /\ \E d \in depts : d.code = dept_code(Head(users).company_name)
    THEN SyncResult(depts, created_count, updated_count, TRUE)
    ELSE LET one == C12_Entity(depts, Head(users)) IN
         C12_FeedUnique(Tail(users), one.departments,
                        created_count + one.created, updated_count + one.updated)

C13_EntitiesIndependent ==
    [][resp'.op \in SyncOps
       => \A user \in Callers, feed \in SyncFeedResponses :
            (sync_fetched(feed) /\ SyncStep(user, feed))
            => /\ \A i \in 1..Len(feed.users) :
                    feed.users[i].has_company_name
                    => \/ \E d \in departments' :
                             d.name = feed.users[i].company_name
                       \/ \E d \in departments' :
                             /\ d.name # feed.users[i].company_name
                             /\ d.code = dept_code(feed.users[i].company_name)
               /\ (\E i \in 1..Len(feed.users) :
                      /\ feed.users[i].has_company_name
                      /\ ~\E d \in departments' :
                             d.name = feed.users[i].company_name)
                  => ~resp'.success]_vars

\* C14: a sync whose fetch raises (unreachable, timeout) or answers with a
\* status other than 200 ends with a failure result that carries a message,
\* and leaves the departments as they were.
C14_UpstreamUnavailable ==
    [][resp'.op \in SyncOps
       => \A user \in Callers, feed \in SyncFeedResponses :
            ((feed.raised \/ feed.status_code # 200) /\ SyncStep(user, feed))
            => /\ departments' = departments
               /\ ~resp'.success
               /\ resp'.code \in {302, 500}
               /\ resp'.data.message \in
                     {"Error syncing with API",
                      "Failed to fetch data from external API."}]_vars

\* C14 witness: a sync has answered that the fetch failed while departments
\* are stored.
C14_Witness ==
    /\ resp.op \in SyncOps
    /\ ~resp.success
    /\ resp.code \in {302, 500}
    /\ resp.data # <<>>
    /\ resp.data.message = "Failed to fetch data from external API."
    /\ departments # {}

----------------------------------------------------------------------------
(* Properties of the department table *)

\* The views that delete a department
DepartmentDeleteStep(user, pk) ==
    \/ /\ login_required(user)
       /\ resp'.op = "department_delete"
       /\ department_delete(user, "POST", pk)
    \/ /\ IsStaffOrReadOnly("DELETE", user)
       /\ resp'.op = "DepartmentViewSet_destroy"
       /\ DepartmentViewSet_destroy(user, pk)

\* C15: a delete of an existing department (web department_delete, API
\* destroy) by a caller who passes the gate leaves the departments as they
\* were when a stored request has that department's name as its department,
\* and removes the department otherwise.
C15_DeleteGuard ==
    [][resp'.op \in {"department_delete", "DepartmentViewSet_destroy"}
       => \A user \in Callers, pk \in AdministrationPkInputs :
            ((\E d \in departments : d.name = pk) /\ DepartmentDeleteStep(user, pk))
            => IF \E id \in DOMAIN requests : requests[id].department = pk
               THEN departments' = departments
               ELSE departments' = {d \in departments : d.name # pk}]_vars

\* Attempts to store a department row (name, code) next to the rows others
DuplicateOf(others, name, code) ==
    \E d \in others : d.name = name \/ d.code = code

\* C16: no two departments have the same name and no two the same code,
\* after every step; and a department add or edit (web and API) by a caller
\* who passes the gate, whose name or code is that of another department,
\* fails and leaves the departments as they were (stated per view as: the
\* step failed and changed nothing, or no such attempt is this step).
C16_Unique ==
    [][/\ \A d, e \in departments' :
             (d.name = e.name \/ d.code = e.code) => d = e
       /\ resp'.op = "department_add"
          => \/ departments' = departments /\ ~resp'.success
             \/ \A user \in Users, name \in AdministrationNameInputs,
                   code \in AdministrationCodeInputs :
                  ~(/\ DuplicateOf(departments, Strip(name), Upper(Strip(code)))
                    /\ department_add(user, "POST", name, code, str_Ann))
       /\ resp'.op = "DepartmentViewSet_create"
          => \/ departments' = departments /\ ~resp'.success
             \/ \A user \in StaffUsers, name \in AdministrationNameInputs,
                   code \in AdministrationCodeInputs :
                  ~(/\ DuplicateOf(departments, Strip(name), Strip(code))
                    /\ DepartmentViewSet_create(user, name, code, str_Ann))
       /\ resp'.op = "department_edit"
          => \/ departments' = departments /\ ~resp'.success
             \/ \A user \in Users, name \in AdministrationNameInputs,
                   code \in AdministrationCodeInputs,
                   pk \in AdministrationPkInputs :
                  ~(/\ DuplicateOf({d \in departments : d.name # pk},
                                   Strip(name), Upper(Strip(code)))
                    /\ department_edit(user, "POST", pk, name, code, str_Ann))
       /\ resp'.op = "DepartmentViewSet_update"
          => \/ departments' = departments /\ ~resp'.success
             \/ \A user \in StaffUsers, name \in AdministrationNameInputs,
                   code \in AdministrationCodeInputs,
                   pk \in AdministrationPkInputs :
                  ~(/\ DuplicateOf({d \in departments : d.name # pk},
                                   Strip(name), Strip(code))
                    /\ DepartmentViewSet_update(user, pk, name, code, str_Ann))]_vars

\* C16 witness: two departments are stored and an add has just been refused
\* by the database.
C16_Witness ==
    /\ Cardinality(departments) = 2
    /\ resp.op = "department_add"
    /\ ~resp.success
    /\ resp.data = "Error creating department"

----------------------------------------------------------------------------
(* Properties of the access rules *)

\* A status update or a directory sync invoked by user, on either surface
StatusUpdateOrSyncStep(user) ==
    \/ \E id \in RequestIds, status \in AccessStatusInputs :
            update_status(user, id, status)
    \/ \E method \in Methods, id \in RequestIds, status \in AccessStatusInputs :
            update_request_status(user, method, id, status)
    \/ \E feed \in AccessFeedResponses : sync_api(user, feed)
    \/ \E method \in Methods, feed \in AccessFeedResponses :
            sync_departments_api(user, method, feed)

\* C17: a status update or a directory sync, on the API or the web surface,
\* that is invoked by a caller who is unauthenticated or not staff is denied
\* and changes no request and no department.
C17_StaffOnlyUpdateAndSync ==
    [][resp'.op \in UpdateOps \cup SyncOps
       => \A user \in Callers \ StaffUsers :
            StatusUpdateOrSyncStep(user)
            => /\ ~resp'.success
               /\ requests' = requests
               /\ departments' = departments]_vars

\* The views that create, update or delete a request or a department
WriteOps ==
    {"ServiceRequestViewSet_create", "ServiceRequestViewSet_update",
     "ServiceRequestViewSet_destroy", "DepartmentViewSet_create",
     "DepartmentViewSet_update", "DepartmentViewSet_destroy",
     "department_add", "department_edit", "department_delete"}

\* The API views that list requests or departments
ReadOps == {"ServiceRequestViewSet_list", "DepartmentViewSet_list"}

\* A create, update or delete of a request or a department invoked by user
WriteStep(user) ==
    \/ ServiceRequestViewSet_create(user, str_IT, "password_reset", "pending", None)
    \/ \E id \in RequestIds : ServiceRequestViewSet_update(user, id, "resolved", None)
    \/ \E id \in RequestIds : ServiceRequestViewSet_destroy(user, id)
    \/ DepartmentViewSet_create(user, str_hr, str_hr, str_Ann)
    \/ \E pk \in AccessPkInputs :
            DepartmentViewSet_update(user, pk, str_IT, str_it, str_Bob)
    \/ \E pk \in AccessPkInputs : DepartmentViewSet_destroy(user, pk)
    \/ \E method \in Methods : department_add(user, method, str_hr, str_hr, str_Ann)
    \/ \E method \in Methods, pk \in AccessPkInputs :
            department_edit(user, method, pk, str_IT, str_it, str_Bob)
    \/ \E method \in Methods, pk \in AccessPkInputs :
            department_delete(user, method, pk)

\* A read of the requests or of the departments invoked by user
ReadStep(user) ==
    \/ ServiceRequestViewSet_list(user)
    \/ DepartmentViewSet_list(user)

\* C18: a create, update or delete of a request or a department (API viewsets,
\* web department add / edit / delete) that is invoked by a caller who is not
\* staff is denied and changes no record; a read by an unauthenticated caller
\* is denied.
C18_StaffWriteAuthenticatedRead ==
    [][/\ resp'.op \in WriteOps
          => \A user \in Callers \ StaffUsers :
               WriteStep(user)
               => /\ ~resp'.success
                  /\ requests' = requests
                  /\ departments' = departments
       /\ resp'.op \in ReadOps
          => (ReadStep(AnonymousUser) => ~resp'.success)]_vars

----------------------------------------------------------------------------
(* Properties of the deletion of requests *)

\* The views that delete a request
RequestDeleteOps == {"ServiceRequestViewSet_destroy", "ServiceRequestAdmin_delete_model"}

\* A delete of the request id invoked by user
RequestDeleteStep(user, id) ==
    \/ ServiceRequestViewSet_destroy(user, id)
    \/ ServiceRequestAdmin_delete_model(user, id)

\* C19 (as stated): a request that exists keeps existing, whatever the
\* operation and the caller.
C19_NeverDeleted ==
    [][\A id \in DOMAIN requests : id \in DOMAIN requests']_vars

\* C19 (amended): a request stops existing only by a delete (API destroy,
\* admin delete) that a staff caller invokes for that request; the step
\* removes that request only, and no other operation and no other caller
\* removes a request.
C19_DeletedOnlyByStaffDelete ==
    [][(\E id \in DOMAIN requests : id \notin DOMAIN requests')
       => /\ resp'.op \in RequestDeleteOps
          /\ resp'.success
          /\ resp'.id \in DOMAIN requests
          /\ requests' = [i \in (DOMAIN requests) \ {resp'.id} |-> requests[i]]
          /\ \E user \in Callers : RequestDeleteStep(user, resp'.id)
          /\ \A user \in Callers :
                RequestDeleteStep(user, resp'.id) => is_staff(user)]_vars

\* C19 witness: the API destroy has just removed a request that was created.
C19_Witness ==
    /\ resp.op = "ServiceRequestViewSet_destroy"
    /\ resp.success
    /\ resp.id < next_id
    /\ resp.id \notin DOMAIN requests

----------------------------------------------------------------------------
(* Properties of concurrent status updates *)

\* The row that the status update of worker w leaves when it runs, as a
\* whole, on the stored row
RunAlone(w, row) ==
    ServiceRequest_save(
        [row EXCEPT
            !.status = inflight[w].new_status,
            !.assigned_to =
                IF inflight[w].view = "update_status"
                THEN update_status_assigned_to(row, inflight[w].new_status,
                                               inflight[w].user)
                ELSE update_request_status_assigned_to(row, inflight[w].new_status,
                                                       inflight[w].user)])

\* status and assigned_to of a row
StatusAndAssignee(row) == <<row.status, row.assigned_to>>

\* C20: when two workers have each read and then written the same request,
\* the stored (status, assigned_to) is the one left by running the two
\* updates one after the other, in one of the two orders, from the row that
\* the first of them read.
C20_Serialized ==
    \A p, q \in Workers :
        (/\ p # q
         /\ inflight[p].pc = "done"
         /\ inflight[q].pc = "done"
         /\ inflight[p].id = inflight[q].id)
        => \/ StatusAndAssignee(requests[inflight[p].id])
                = StatusAndAssignee(RunAlone(q, RunAlone(p, inflight[p].service_request)))
           \/ StatusAndAssignee(requests[inflight[p].id])
                = StatusAndAssignee(RunAlone(p, RunAlone(q, inflight[q].service_request)))

----------------------------------------------------------------------------
(* Properties of the submission form's department choices *)

\* The feed fails: requests.get raises (unreachable, timeout), the status is
\* not 200, or the data cannot be processed to the end
FeedFails(depts, feed) ==
    \/ feed.raised
    \/ feed.status_code # 200
    \/ fetch_loop(feed.users, depts, {}).raised

\* A step of home that renders the form, with the feed answering feed
HomeRenders(feed) ==
    /\ resp'.op = "home"
    /\ resp'.code = 200
    /\ \E user \in Callers, method \in Methods, has_text \in BOOLEAN,
          department \in DepartmentInputs, category \in CategoryInputs :
            home(user, method, feed, has_text, department, category)

\* C21: when no department is stored and the feed fails, the submission
\* form that home renders offers the static list of departments, and no
\* department is stored.
C21_StaticFallback ==
    [][(resp'.op = "home" /\ departments = {})
       => \A feed \in FeedResponses :
            (FeedFails(departments, feed) /\ HomeRenders(feed))
            => /\ resp'.data = StaticChoices
               /\ departments' = {}]_vars

----------------------------------------------------------------------------
(* Properties of the assignment under concurrent status updates *)

\* A worker's save() of a status update has just been committed
StatusUpdateCommits ==
    \E w \in Workers : update_status_save(w) \/ update_request_status_save(w)

\* C22: a status update that commits, however its read and its write
\* interleave with those of other status updates, leaves a stored assignee
\* as it is: it neither replaces it by another user nor resets it to unset.
C22_AssignmentKept ==
    [][(resp'.op \in UpdateOps /\ StatusUpdateCommits)
       => \A id \in DOMAIN requests :
            requests[id].assigned_to # None
            => /\ id \in DOMAIN requests'
               /\ requests'[id].assigned_to = requests[id].assigned_to]_vars

----------------------------------------------------------------------------
(* Properties of the unauthenticated caller *)

\* A step of a view that can write departments, invoked by a caller who is
\* not logged in
AnonymousStep ==
    \/ \E method \in Methods, feed \in AdministrationFeedResponses,
          department \in {str_IT, str_hr} :
            home(AnonymousUser, method, feed, TRUE, department, "password_reset")
    \/ \E method \in Methods, name \in AdministrationNameInputs,
          code \in AdministrationCodeInputs :
            department_add(AnonymousUser, method, name, code, str_Ann)
    \/ \E method \in Methods, pk \in AdministrationPkInputs,
          name \in AdministrationNameInputs, code \in AdministrationCodeInputs :
            department_edit(AnonymousUser, method, pk, name, code, str_Ann)
    \/ \E method \in Methods, pk \in AdministrationPkInputs :
            department_delete(AnonymousUser, method, pk)
    \/ \E name \in AdministrationNameInputs, code \in AdministrationCodeInputs :
            DepartmentViewSet_create(AnonymousUser, name, code, str_Ann)
    \/ \E pk \in AdministrationPkInputs, name \in AdministrationNameInputs,
          code \in AdministrationCodeInputs :
            DepartmentViewSet_update(AnonymousUser, pk, name, code, str_Ann)
    \/ \E pk \in AdministrationPkInputs :
            DepartmentViewSet_destroy(AnonymousUser, pk)
    \/ \E feed \in SyncFeedResponses : sync_api(AnonymousUser, feed)
    \/ \E method \in Methods, feed \in SyncFeedResponses :
            sync_departments_api(AnonymousUser, method, feed)

\* C23: no step invoked by a caller who is not logged in changes the
\* departments; in particular home leaves them as they are, whatever is
\* stored and whatever the feed answers.
C23_AnonymousLeavesDepartments ==
    [][departments' # departments => ~AnonymousStep]_vars

====
